---- MODULE Spec2Model ----
(***************************************************************************)
(* A model of src/src/thread_pool.cc: art::ThreadPool, ThreadPoolWorker,   *)
(* WorkStealingWorker and WorkStealingThreadPool.                          *)
(*                                                                         *)
(* Threads are the pool's workers 0 .. thread_count-1, one caller thread   *)
(* that calls Wait, one thread that destroys the pool, and client calls of *)
(* AddTask, StartWorkers and StopWorkers from any thread.  A mutex is      *)
(* the set of worker threads holding it (empty: free); the body of a       *)
(* MutexLock scope taken by a worker is a step of its own, the scopes of   *)
(* the client calls are single steps taken while the mutex is free.        *)
(*                                                                         *)
(* The destructor joins and deletes the workers one after the other.  A    *)
(* step of the code whose behaviour is undefined (work_steal_lock_ used    *)
(* after ~WorkStealingThreadPool destroyed it, the task_ of a deleted      *)
(* worker read by FindTaskToStealFrom, the pool read by a caller left      *)
(* inside Wait after ~ThreadPool returned, task_queue_lock_ locked after   *)
(* ~ThreadPool returned by a client call that stood at its MutexLock) has  *)
(* every outcome a build may give it: it goes on with the old value, it    *)
(* goes on with another value, or the process is ended (aborted), after    *)
(* which no thread takes a step.                                           *)
(***************************************************************************)
EXTENDS Integers, Sequences, FiniteSets

\* Bounds of the model.
NumWorkers == 2     \* num_threads given to the constructor
MaxTasks == 2       \* how many tasks are ever passed to AddTask
LiveWorkers == 2    \* num_threads in the specifications with fairness
LiveTasks == 2      \* tasks ever added in the specifications with fairness
MaxClock == 2       \* the last value NanoTime() takes where time is modelled
CounterBits == 2    \* the width of the uint64_t counters, scaled down
FindWorkers == 3    \* num_threads where FindTaskToStealFrom is applied on its own
FindTasks == 3      \* tasks there: one of the caller, the others published or done
MaxUses == 2        \* Run or Finalize calls on one task, counting those through stale pointers

\* Task* NULL; tasks are 1 .. MaxTasks, numbered in the order they are added.
NULL == 0

VARIABLES
    stealing,       \* TRUE: a WorkStealingThreadPool of WorkStealingWorkers
    thread_count,   \* GetThreadCount(), threads_.size()
    limit,          \* how many tasks the clients and the tasks pass to AddTask
    tasks,          \* tasks_ : the deque, front first
    started,        \* started_
    shutting_down,  \* shutting_down_
    waiting_count,  \* waiting_count_
    queue_lock,     \* task_queue_lock_ : the workers holding it
    steal_lock,     \* work_steal_lock_ : the workers holding it
    steal_index,    \* steal_index_
    wpc,            \* per worker: where its thread is
    wtask,          \* per worker: the local `task` / `stealing_task` of Run
    task_,          \* per worker: WorkStealingWorker::task_
    steal_from,     \* per worker: the local `steal_from_task`
    ref_count,      \* per task: WorkStealingTask::ref_count_
    runs,           \* per task: how many times Task::Run was invoked
    fins,           \* per task: how many times Task::Finalize was invoked
    mpc,            \* the caller thread: where it is
    mtask,          \* the caller thread: the local `task` of Wait
    do_work,        \* the do_work argument of the caller's Wait
    added,          \* how many tasks have been passed to AddTask
    add_thread,     \* the thread that made the latest call of AddTask
    now,            \* what NanoTime() returns
    start_time,     \* start_time_
    total_wait_time, \* total_wait_time_
    wait_start,     \* per worker: the local `wait_start` of GetTask
    run_kind,       \* per worker: the class whose Run its thread executes
    dpc,            \* the thread that destroys the pool: where it is
    added_at_shutdown, \* how many tasks had been added when shutting_down_ was set
    joined,         \* how many workers ~ThreadPool has joined and deleted
    aborted         \* TRUE: the process was ended by a fault

vars == <<stealing, thread_count, limit, tasks, started, shutting_down, waiting_count,
          queue_lock, steal_lock, steal_index, wpc, wtask, task_, steal_from,
          ref_count, runs, fins, mpc, mtask, do_work, added, add_thread,
          now, start_time, total_wait_time, wait_start, run_kind, dpc,
          added_at_shutdown, joined, aborted>>

\* The threads that call AddTask: a client, the caller of Wait (from the Run
\* of a task that Wait executes) and worker w (from the Run of its task)
NoThread == <<"none", 0>>
ClientThread == <<"client", 0>>
CallerThread == <<"caller", 0>>
WorkerThread(w) == <<"worker", w>>

\* uint64_t arithmetic wraps at this value
Modulus == 2 ^ CounterBits

Max(a, b) == IF a >= b THEN a ELSE b

Workers == 0 .. (thread_count - 1)
TaskIds == 1 .. limit

----------------------------------------------------------------------------
\* Condition variables.  A worker inside task_queue_condition_.Wait is at
\* "cond_wait" until it is woken and at "cond_woken" until it has the mutex
\* again; the caller inside completion_condition_.Wait is at "Wait_blocked".

\* ConditionVariable::Broadcast on task_queue_condition_
Broadcast(pcs) ==
    [w \in DOMAIN pcs |-> IF pcs[w] = "cond_wait" THEN "cond_woken" ELSE pcs[w]]

\* ConditionVariable::Signal on task_queue_condition_: the possible outcomes
Signal(pcs) ==
    IF \E w \in DOMAIN pcs : pcs[w] = "cond_wait"
    THEN {[pcs EXCEPT ![w] = "cond_woken"] : w \in {x \in DOMAIN pcs : pcs[x] = "cond_wait"}}
    ELSE {pcs}

\* ConditionVariable::Broadcast on completion_condition_
BroadcastCompletion(pc) == IF pc = "Wait_blocked" THEN "Wait_check" ELSE pc

----------------------------------------------------------------------------
\* The Run a worker's thread executes.  The thread is created in the
\* constructor of ThreadPoolWorker, and its Callback calls the virtual Run: a
\* thread of a WorkStealingWorker that gets there before the constructor of
\* WorkStealingWorker has begun executes ThreadPoolWorker::Run.
RunKinds(kind) ==
    IF kind THEN {"ThreadPoolWorker", "WorkStealingWorker"} ELSE {"ThreadPoolWorker"}

\* ThreadPool::ThreadPool / WorkStealingThreadPool::WorkStealingThreadPool.
\* The constructor initialises neither start_time_ nor total_wait_time_: they
\* start with whatever values st and tw the memory holds.
InitPoolAt(n, kind, lim, st, tw) ==
    /\ run_kind \in [0 .. (n - 1) -> RunKinds(kind)]
    /\ dpc = "alive"
    /\ added_at_shutdown = 0
    /\ joined = 0
    /\ aborted = FALSE
    /\ now = 0
    /\ start_time = st
    /\ total_wait_time = tw
    /\ wait_start = [w \in 0 .. (n - 1) |-> 0]
    /\ stealing = kind
    /\ thread_count = n
    /\ limit = lim
    /\ tasks = <<>>
    /\ started = FALSE
    /\ shutting_down = FALSE
    /\ waiting_count = 0
    /\ queue_lock = {}
    /\ steal_lock = {}
    /\ steal_index = 0
    /\ wpc = [w \in 0 .. (n - 1) |-> "GetTask"]
    /\ wtask = [w \in 0 .. (n - 1) |-> NULL]
    /\ task_ = [w \in 0 .. (n - 1) |-> NULL]
    /\ steal_from = [w \in 0 .. (n - 1) |-> NULL]
    /\ ref_count = [t \in 1 .. lim |-> 0]
    /\ runs = [t \in 1 .. lim |-> 0]
    /\ fins = [t \in 1 .. lim |-> 0]
    /\ mpc = "idle"
    /\ mtask = NULL
    /\ do_work = FALSE
    /\ added = 0
    /\ add_thread = NoThread

\* The pool after its construction, start_time_ and total_wait_time_ holding
\* any value
InitPool(n, kind, lim) ==
    \E st \in 0 .. (Modulus - 1) : \E tw \in 0 .. (Modulus - 1) :
        InitPoolAt(n, kind, lim, st, tw)

\* ThreadPool pool(NumWorkers)
Init == InitPool(NumWorkers, FALSE, MaxTasks)

\* WorkStealingThreadPool pool(NumWorkers)
StealInit == InitPool(NumWorkers, TRUE, MaxTasks)

\* ThreadPool pool(0)
ZeroInit == InitPool(0, FALSE, MaxTasks)

\* ThreadPool pool(LiveWorkers), for the specifications with fairness
FairInit == InitPool(LiveWorkers, FALSE, LiveTasks)

\* Either pool, for the specification of the shutdown
FairPoolsInit == \E kind \in BOOLEAN : InitPool(LiveWorkers, kind, LiveTasks)

----------------------------------------------------------------------------
\* Mutant: AddTask puts the task at the front of the deque
AddTaskQueue_Front(q, t) == <<t>> \o q

\* ThreadPool::AddTask: the queue after push_back
AddTaskQueue(q, t) == Append(q, t)

\* Mutant: AddTask signals nobody
AddTaskSignal_None(pcs) == {pcs}

\* ThreadPool::AddTask: the outcomes of "if we have any waiters, signal one"
AddTaskSignal(pcs) == IF waiting_count # 0 THEN Signal(pcs) ELSE {pcs}

\* ThreadPool::AddTask(self, task) called by thread `thread`, the whole
\* MutexLock scope
AddTask(t, thread) ==
    /\ queue_lock = {}
    /\ tasks' = AddTaskQueue(tasks, t)
    /\ wpc' \in AddTaskSignal(wpc)
    /\ added' = added + 1
    /\ add_thread' = thread

\* The destructor has not returned: the pool exists
PoolAlive == dpc # "destroyed"

\* AddTask called by a client thread.  The thread may stand at the MutexLock
\* of the call until ~ThreadPool has returned: it then locks the destroyed
\* task_queue_lock_ and goes on as before, or the process is ended there.
ClientAddTask ==
    /\ ~aborted
    /\ added < limit
    /\ \/ /\ AddTask(added + 1, ClientThread)
          /\ UNCHANGED aborted
       \/ /\ dpc = "destroyed"
          /\ aborted' = TRUE
          /\ UNCHANGED <<tasks, wpc, added, add_thread>>
    /\ UNCHANGED <<now, start_time, total_wait_time, wait_start,
                   stealing, run_kind, dpc, added_at_shutdown, joined,
                   thread_count, limit, started, shutting_down,
                   waiting_count,
                   queue_lock, steal_lock, steal_index, wtask, task_, steal_from,
                   ref_count, runs, fins, mpc, mtask, do_work>>

\* ThreadPool::StartWorkers: the value of started_ it leaves
StartWorkersStarted == TRUE

\* Mutant: StartWorkers wakes no worker
StartWorkersBroadcast_None(pcs) == pcs

\* ThreadPool::StartWorkers: task_queue_condition_.Broadcast(self)
StartWorkersBroadcast(pcs) == Broadcast(pcs)

\* ThreadPool::StartWorkers.  The thread may stand at the MutexLock of the
\* call until ~ThreadPool has returned: it then locks the destroyed
\* task_queue_lock_ and goes on as before, or the process is ended there.
StartWorkers ==
    /\ ~aborted
    /\ \/ /\ queue_lock = {}
          /\ started' = StartWorkersStarted
          /\ wpc' = StartWorkersBroadcast(wpc)
          /\ start_time' = now
          /\ total_wait_time' = 0
          /\ UNCHANGED aborted
       \/ /\ dpc = "destroyed"
          /\ aborted' = TRUE
          /\ UNCHANGED <<started, wpc, start_time, total_wait_time>>
    /\ UNCHANGED <<now, wait_start,
                   stealing, run_kind, dpc, added_at_shutdown, joined,
                   thread_count, limit, tasks, shutting_down, waiting_count,
                   queue_lock, steal_lock, steal_index, wtask, task_, steal_from,
                   ref_count, runs, fins, mpc, mtask, do_work, added, add_thread>>

\* ThreadPool::StopWorkers.  The thread may stand at the MutexLock of the call
\* until ~ThreadPool has returned: it then locks the destroyed
\* task_queue_lock_ and goes on as before, or the process is ended there.
StopWorkers ==
    /\ ~aborted
    /\ \/ /\ queue_lock = {}
          /\ started' = FALSE
          /\ UNCHANGED aborted
       \/ /\ dpc = "destroyed"
          /\ aborted' = TRUE
          /\ UNCHANGED started
    /\ UNCHANGED <<now, start_time, total_wait_time, wait_start,
                   stealing, run_kind, dpc, added_at_shutdown, joined,
                   thread_count, limit, tasks, shutting_down, waiting_count,
                   queue_lock, steal_lock, steal_index, wpc, wtask, task_, steal_from,
                   ref_count, runs, fins, mpc, mtask, do_work, added, add_thread>>

----------------------------------------------------------------------------
\* Mutant: TryGetTaskLocked hands out the front task whether started_ or not
TryGetTaskLocked_IgnoreStarted == IF tasks # <<>> THEN Head(tasks) ELSE NULL

\* Mutant: TryGetTaskLocked returns the back of the deque and pops the front
TryGetTaskLocked_Back == IF started /\ tasks # <<>> THEN tasks[Len(tasks)] ELSE NULL

\* ThreadPool::TryGetTaskLocked: the task it returns
TryGetTaskLocked == IF started /\ tasks # <<>> THEN Head(tasks) ELSE NULL

\* Mutant: TryGetTaskLocked returns the front task and forgets pop_front
TryGetTaskLockedQueue_NoPop == tasks

\* ThreadPool::TryGetTaskLocked: the queue it leaves
TryGetTaskLockedQueue == IF started /\ tasks # <<>> THEN Tail(tasks) ELSE tasks

\* ThreadPool::IsShuttingDown
IsShuttingDown == shutting_down

\* ThreadPool::GetTask: MutexLock mu(self, task_queue_lock_)
GetTaskLock(w) ==
    /\ ~aborted
    /\ wpc[w] = "GetTask"
    /\ queue_lock = {}
    /\ queue_lock' = {w}
    /\ wpc' = [wpc EXCEPT ![w] = "GetTask_loop"]
    /\ UNCHANGED <<now, start_time, total_wait_time, wait_start,
                   stealing, run_kind, dpc, added_at_shutdown, joined, aborted,
                   thread_count, limit, tasks, started, shutting_down,
                   waiting_count, steal_lock, steal_index, wtask, task_, steal_from,
                   ref_count, runs, fins, mpc, mtask, do_work, added, add_thread>>

\* ThreadPool::GetTask: the count after waiting_count_++
GetTaskIncrement == waiting_count + 1

\* Mutant: GetTask never broadcasts completion_condition_
GetTaskMayBeDone_Never(count) == FALSE

\* ThreadPool::GetTask: the condition of the completion broadcast
GetTaskMayBeDone(count) == count = thread_count /\ tasks = <<>>

\* ThreadPool::GetTask: one pass of the loop with the mutex held, up to the
\* return or to task_queue_condition_.Wait (which gives the mutex up).
GetTaskLoop(w) ==
    /\ ~aborted
    /\ wpc[w] = "GetTask_loop"
    /\ queue_lock' = {}
    /\ IF IsShuttingDown
       THEN /\ wpc' = [wpc EXCEPT ![w] = "exited"]
            /\ wtask' = [wtask EXCEPT ![w] = NULL]
            /\ UNCHANGED <<tasks, waiting_count, mpc, wait_start>>
       ELSE IF TryGetTaskLocked # NULL
       THEN /\ wtask' = [wtask EXCEPT ![w] = TryGetTaskLocked]
            /\ tasks' = TryGetTaskLockedQueue
            /\ wpc' = [wpc EXCEPT ![w] = "got_task"]
            /\ UNCHANGED <<waiting_count, mpc, wait_start>>
       ELSE /\ waiting_count' = GetTaskIncrement
            /\ mpc' = IF GetTaskMayBeDone(waiting_count')
                      THEN BroadcastCompletion(mpc) ELSE mpc
            /\ wait_start' = [wait_start EXCEPT ![w] = now]
            /\ wpc' = [wpc EXCEPT ![w] = "cond_wait"]
            /\ UNCHANGED <<tasks, wtask>>
    /\ UNCHANGED <<now, start_time, total_wait_time,
                   stealing, run_kind, dpc, added_at_shutdown, joined, aborted,
                   thread_count, limit, started, shutting_down, steal_lock,
                   steal_index, task_, steal_from, ref_count, runs, fins, mtask,
                   do_work, added, add_thread>>

\* task_queue_condition_.Wait returns without a Signal or Broadcast
SpuriousWakeup(w) ==
    /\ ~aborted
    /\ wpc[w] = "cond_wait"
    /\ wpc' = [wpc EXCEPT ![w] = "cond_woken"]
    /\ UNCHANGED <<now, start_time, total_wait_time, wait_start,
                   stealing, run_kind, dpc, added_at_shutdown, joined, aborted,
                   thread_count, limit, tasks, started, shutting_down,
                   waiting_count, queue_lock, steal_lock, steal_index, wtask, task_,
                   steal_from, ref_count, runs, fins, mpc, mtask, do_work,
                   added, add_thread>>

\* ThreadPool::GetTask: task_queue_condition_.Wait takes the mutex again
GetTaskWake(w) ==
    /\ ~aborted
    /\ wpc[w] = "cond_woken"
    /\ queue_lock = {}
    /\ queue_lock' = {w}
    /\ wpc' = [wpc EXCEPT ![w] = "GetTask_woken"]
    /\ UNCHANGED <<now, start_time, total_wait_time, wait_start,
                   stealing, run_kind, dpc, added_at_shutdown, joined, aborted,
                   thread_count, limit, tasks, started, shutting_down,
                   waiting_count, steal_lock, steal_index, wtask, task_, steal_from,
                   ref_count, runs, fins, mpc, mtask, do_work, added, add_thread>>

\* Mutant: GetTask forgets waiting_count_--
GetTaskDecrement_None == waiting_count

\* ThreadPool::GetTask: the count after waiting_count_--
GetTaskDecrement == waiting_count - 1

\* ThreadPool::GetTask: wait_end - std::max(wait_start, start_time_), in
\* uint64_t, with wait_end = NanoTime()
GetTaskWaitTime(w) == (now - Max(wait_start[w], start_time)) % Modulus

\* ThreadPool::GetTask: total_wait_time_ += ...
GetTaskTotalWaitTime(w) == (total_wait_time + GetTaskWaitTime(w)) % Modulus

\* ThreadPool::GetTask: after the wait, with the mutex held again: wait_end,
\* total_wait_time_, waiting_count_-- and back to the loop test.  wait_start
\* is not read again before it is assigned.
GetTaskAfterWait(w) ==
    /\ ~aborted
    /\ wpc[w] = "GetTask_woken"
    /\ total_wait_time' = GetTaskTotalWaitTime(w)
    /\ wait_start' = [wait_start EXCEPT ![w] = 0]
    /\ waiting_count' = GetTaskDecrement
    /\ wpc' = [wpc EXCEPT ![w] = "GetTask_loop"]
    /\ UNCHANGED <<now, start_time,
                   stealing, run_kind, dpc, added_at_shutdown, joined, aborted,
                   thread_count, limit, tasks, started, shutting_down,
                   queue_lock, steal_lock, steal_index, wtask, task_, steal_from,
                   ref_count, runs, fins, mpc, mtask, do_work, added, add_thread>>

----------------------------------------------------------------------------
\* ThreadPoolWorker::Run: task->Run(self) is called
WorkerRunBegin(w) ==
    /\ ~aborted
    /\ run_kind[w] = "ThreadPoolWorker"
    /\ wpc[w] = "got_task"
    /\ runs' = [runs EXCEPT ![wtask[w]] = @ + 1]
    /\ wpc' = [wpc EXCEPT ![w] = "in_Run"]
    /\ UNCHANGED <<now, start_time, total_wait_time, wait_start,
                   stealing, run_kind, dpc, added_at_shutdown, joined, aborted,
                   thread_count, limit, tasks, started, shutting_down,
                   waiting_count, queue_lock, steal_lock, steal_index, wtask, task_,
                   steal_from, ref_count, fins, mpc, mtask, do_work, added, add_thread>>

\* The task that a ThreadPoolWorker runs calls AddTask from within its Run
RunAddTask(w) ==
    /\ ~aborted
    /\ run_kind[w] = "ThreadPoolWorker"
    /\ wpc[w] = "in_Run"
    /\ added < limit
    /\ AddTask(added + 1, WorkerThread(w))
    /\ UNCHANGED <<now, start_time, total_wait_time, wait_start,
                   stealing, run_kind, dpc, added_at_shutdown, joined, aborted,
                   thread_count, limit, started, shutting_down,
                   waiting_count,
                   queue_lock, steal_lock, steal_index, wtask, task_, steal_from,
                   ref_count, runs, fins, mpc, mtask, do_work>>

\* ThreadPoolWorker::Run: task->Run(self) returns, task->Finalize() is called.
\* The local `task` is not read again before GetTask's result is assigned to it.
WorkerFinalize(w) ==
    /\ ~aborted
    /\ run_kind[w] = "ThreadPoolWorker"
    /\ wpc[w] = "in_Run"
    /\ fins' = [fins EXCEPT ![wtask[w]] = @ + 1]
    /\ wtask' = [wtask EXCEPT ![w] = NULL]
    /\ wpc' = [wpc EXCEPT ![w] = "GetTask"]
    /\ UNCHANGED <<now, start_time, total_wait_time, wait_start,
                   stealing, run_kind, dpc, added_at_shutdown, joined, aborted,
                   thread_count, limit, tasks, started, shutting_down,
                   waiting_count, queue_lock, steal_lock, steal_index, task_,
                   steal_from, ref_count, runs, mpc, mtask, do_work, added, add_thread>>

----------------------------------------------------------------------------
\* WorkStealingThreadPool::FindTaskToStealFrom: ++steal_index_, wrapped
NextStealIndex(i) == IF i + 1 >= thread_count THEN i + 1 - thread_count ELSE i + 1

\* WorkStealingThreadPool::FindTaskToStealFrom: the rest of the for loop, from
\* cursor idx with `left` iterations to go; the cursor it leaves, the task found
RECURSIVE FindFrom(_, _)
FindFrom(idx, left) ==
    IF left = 0
    THEN [index |-> idx, task |-> NULL]
    ELSE LET j == NextStealIndex(idx)
         IN  IF task_[j] # NULL
             THEN [index |-> j, task |-> task_[j]]
             ELSE FindFrom(j, left - 1)

\* Mutant: the scan stops one candidate short
FindTaskToStealFrom_OneShort == FindFrom(steal_index, thread_count - 1)

\* WorkStealingThreadPool::FindTaskToStealFrom
FindTaskToStealFrom == FindFrom(steal_index, thread_count)

\* The tasks a pointer read from freed memory may point to: any task that was
\* created, as long as the counters of the model have room for one more use
WildTasks == {t \in 1 .. added : runs[t] < MaxUses /\ fins[t] < MaxUses}

\* ThreadPool::~ThreadPool, STLDeleteElements: worker i has been deleted
Deleted(i) == i < joined

\* WorkStealingThreadPool::FindTaskToStealFrom when ~ThreadPool has deleted
\* workers: worker->task_ of a deleted worker is read from freed memory, which
\* holds the NULL the worker left there or, once the block is used again,
\* anything.  The cursors the scan may leave and the tasks it may return.
RECURSIVE FindFromFreed(_, _)
FindFromFreed(idx, left) ==
    IF left = 0
    THEN {[index |-> idx, task |-> NULL]}
    ELSE LET j == NextStealIndex(idx)
         IN  IF Deleted(j)
             THEN {[index |-> j, task |-> t] : t \in WildTasks}
                  \cup FindFromFreed(j, left - 1)
             ELSE IF task_[j] # NULL
             THEN {[index |-> j, task |-> task_[j]]}
             ELSE FindFromFreed(j, left - 1)

\* WorkStealingThreadPool::FindTaskToStealFrom: what the call may give
FindTaskToStealFromOutcomes ==
    IF joined = 0
    THEN {FindTaskToStealFrom}
    ELSE FindFromFreed(steal_index, thread_count)

\* WorkStealingThreadPool::~WorkStealingThreadPool has run: work_steal_lock_ and
\* steal_index_ are destroyed, the workers that are left still use them
StealMembersDestroyed == stealing /\ dpc # "alive"

\* WorkStealingWorker::Run: the places whose next step locks or unlocks
\* work_steal_lock_, or calls FindTaskToStealFrom
StealSteps ==
    {"got_task", "publish", "steal", "FindTaskToStealFrom", "steal_done",
     "steal_unref", "release", "unref"}

\* WorkStealingWorker::Run uses a destroyed member of the pool or a deleted
\* worker, and the process is ended there (a failed check of the mutex, a
\* fault on the freed memory)
WorkerAbort(w) ==
    /\ ~aborted
    /\ run_kind[w] = "WorkStealingWorker"
    /\ StealMembersDestroyed
    /\ wpc[w] \in StealSteps
    /\ aborted' = TRUE
    /\ UNCHANGED <<now, start_time, total_wait_time, wait_start,
                   stealing, run_kind, dpc, added_at_shutdown, joined,
                   thread_count, limit, tasks, started, shutting_down,
                   waiting_count, queue_lock, steal_lock, steal_index, wpc, wtask, task_,
                   steal_from,
                   ref_count, runs, fins, mpc, mtask, do_work, added, add_thread>>

\* WorkStealingWorker::Run: CHECK(task_ == NULL), then MutexLock on work_steal_lock_
PublishLock(w) ==
    /\ ~aborted
    /\ run_kind[w] = "WorkStealingWorker"
    /\ wpc[w] = "got_task"
    /\ IF task_[w] # NULL
       THEN /\ wpc' = [wpc EXCEPT ![w] = "CHECK_failed"]
            /\ UNCHANGED steal_lock
       ELSE /\ steal_lock = {}
            /\ steal_lock' = {w}
            /\ wpc' = [wpc EXCEPT ![w] = "publish"]
    /\ UNCHANGED <<now, start_time, total_wait_time, wait_start,
                   stealing, run_kind, dpc, added_at_shutdown, joined, aborted,
                   thread_count, limit, tasks, started, shutting_down,
                   waiting_count, queue_lock, steal_index, wtask, task_, steal_from,
                   ref_count, runs, fins, mpc, mtask, do_work, added, add_thread>>

\* WorkStealingWorker::Run: ++stealing_task->ref_count_
PublishRef(t) == ref_count[t] + 1

\* WorkStealingWorker::Run: "register that we are running the task"
Publish(w) ==
    /\ ~aborted
    /\ wpc[w] = "publish"
    /\ ref_count' = [ref_count EXCEPT ![wtask[w]] = PublishRef(wtask[w])]
    /\ task_' = [task_ EXCEPT ![w] = wtask[w]]
    /\ steal_lock' = {}
    /\ wpc' = [wpc EXCEPT ![w] = "call_Run"]
    /\ UNCHANGED <<now, start_time, total_wait_time, wait_start,
                   stealing, run_kind, dpc, added_at_shutdown, joined, aborted,
                   thread_count, limit, tasks, started, shutting_down,
                   waiting_count, queue_lock, steal_index, wtask, steal_from, runs,
                   fins, mpc, mtask, do_work, added, add_thread>>

\* WorkStealingWorker::Run: stealing_task->Run(self) is called
StealingRunBegin(w) ==
    /\ ~aborted
    /\ wpc[w] = "call_Run"
    /\ runs' = [runs EXCEPT ![wtask[w]] = @ + 1]
    /\ wpc' = [wpc EXCEPT ![w] = "in_Run"]
    /\ UNCHANGED <<now, start_time, total_wait_time, wait_start,
                   stealing, run_kind, dpc, added_at_shutdown, joined, aborted,
                   thread_count, limit, tasks, started, shutting_down,
                   waiting_count, queue_lock, steal_lock, steal_index, wtask, task_,
                   steal_from, ref_count, fins, mpc, mtask, do_work, added, add_thread>>

\* The task that a WorkStealingWorker runs calls AddTask from within its Run
StealingRunAddTask(w) ==
    /\ ~aborted
    /\ run_kind[w] = "WorkStealingWorker"
    /\ wpc[w] = "in_Run"
    /\ added < limit
    /\ AddTask(added + 1, WorkerThread(w))
    /\ UNCHANGED <<now, start_time, total_wait_time, wait_start,
                   stealing, run_kind, dpc, added_at_shutdown, joined, aborted,
                   thread_count, limit, started, shutting_down,
                   waiting_count,
                   queue_lock, steal_lock, steal_index, wtask, task_, steal_from,
                   ref_count, runs, fins, mpc, mtask, do_work>>

\* WorkStealingWorker::Run: Run returns and task_ = NULL is stored, under no lock
StealingRunEnd(w) ==
    /\ ~aborted
    /\ run_kind[w] = "WorkStealingWorker"
    /\ wpc[w] = "in_Run"
    /\ task_' = [task_ EXCEPT ![w] = NULL]
    /\ wpc' = [wpc EXCEPT ![w] = "GetTaskCount"]
    /\ UNCHANGED <<now, start_time, total_wait_time, wait_start,
                   stealing, run_kind, dpc, added_at_shutdown, joined, aborted,
                   thread_count, limit, tasks, started, shutting_down,
                   waiting_count, queue_lock, steal_lock, steal_index, wtask,
                   steal_from, ref_count, runs, fins, mpc, mtask, do_work,
                   added, add_thread>>

\* ThreadPool::GetTaskCount: MutexLock mu(self, task_queue_lock_)
GetTaskCountLock(w) ==
    /\ ~aborted
    /\ wpc[w] = "GetTaskCount"
    /\ queue_lock = {}
    /\ queue_lock' = {w}
    /\ wpc' = [wpc EXCEPT ![w] = "GetTaskCount_locked"]
    /\ UNCHANGED <<now, start_time, total_wait_time, wait_start,
                   stealing, run_kind, dpc, added_at_shutdown, joined, aborted,
                   thread_count, limit, tasks, started, shutting_down,
                   waiting_count, steal_lock, steal_index, wtask, task_, steal_from,
                   ref_count, runs, fins, mpc, mtask, do_work, added, add_thread>>

\* ThreadPool::GetTaskCount
GetTaskCount == Len(tasks)

\* Mutant: the worker keeps task_queue_lock_ after GetTaskCount
StealingLoopTest_KeepsLock(w) ==
    /\ ~aborted
    /\ wpc[w] = "GetTaskCount_locked"
    /\ wpc' = [wpc EXCEPT ![w] = IF GetTaskCount = 0 THEN "steal" ELSE "release"]
    /\ steal_from' = [steal_from EXCEPT ![w] = NULL]
    /\ UNCHANGED <<now, start_time, total_wait_time, wait_start,
                   stealing, run_kind, dpc, added_at_shutdown, joined, aborted,
                   thread_count, limit, tasks, started, shutting_down,
                   waiting_count, queue_lock, steal_lock, steal_index, wtask, task_,
                   ref_count, runs, fins, mpc, mtask, do_work, added, add_thread>>

\* WorkStealingWorker::Run: while (thread_pool->GetTaskCount(self) == 0), and
\* the steal_from_task = NULL that opens the loop body
StealingLoopTest(w) ==
    /\ ~aborted
    /\ wpc[w] = "GetTaskCount_locked"
    /\ queue_lock' = {}
    /\ wpc' = [wpc EXCEPT ![w] = IF GetTaskCount = 0 THEN "steal" ELSE "release"]
    /\ steal_from' = [steal_from EXCEPT ![w] = NULL]
    /\ UNCHANGED <<now, start_time, total_wait_time, wait_start,
                   stealing, run_kind, dpc, added_at_shutdown, joined, aborted,
                   thread_count, limit, tasks, started, shutting_down,
                   waiting_count, steal_lock, steal_index, wtask, task_,
                   ref_count, runs, fins, mpc, mtask, do_work, added, add_thread>>

\* WorkStealingWorker::Run: the MutexLock of the victim search
StealLock(w) ==
    /\ ~aborted
    /\ wpc[w] = "steal"
    /\ steal_lock = {}
    /\ steal_lock' = {w}
    /\ wpc' = [wpc EXCEPT ![w] = "FindTaskToStealFrom"]
    /\ UNCHANGED <<now, start_time, total_wait_time, wait_start,
                   stealing, run_kind, dpc, added_at_shutdown, joined, aborted,
                   thread_count, limit, tasks, started, shutting_down,
                   waiting_count, queue_lock, steal_index, wtask, task_, steal_from,
                   ref_count, runs, fins, mpc, mtask, do_work, added, add_thread>>

\* WorkStealingWorker::Run: steal_from_task->ref_count_++
StealRef(v) == ref_count[v] + 1

\* WorkStealingWorker::Run: the victim search under work_steal_lock_:
\* FindTaskToStealFrom, CHECK_NE(stealing_task, steal_from_task), the
\* reference taken on the victim, or the break when there is none
StealFind(w) ==
    /\ ~aborted
    /\ wpc[w] = "FindTaskToStealFrom"
    /\ steal_lock' = {}
    /\ \E found \in FindTaskToStealFromOutcomes :
           /\ steal_index' = found.index
           /\ IF found.task = NULL
              THEN /\ wpc' = [wpc EXCEPT ![w] = "release"]
                   /\ UNCHANGED <<steal_from, ref_count>>
              ELSE IF found.task = wtask[w]
              THEN /\ wpc' = [wpc EXCEPT ![w] = "CHECK_failed"]
                   /\ steal_from' = [steal_from EXCEPT ![w] = found.task]
                   /\ UNCHANGED ref_count
              ELSE /\ wpc' = [wpc EXCEPT ![w] = "StealFrom"]
                   /\ steal_from' = [steal_from EXCEPT ![w] = found.task]
                   /\ ref_count' = [ref_count EXCEPT ![found.task] = StealRef(found.task)]
    /\ UNCHANGED <<now, start_time, total_wait_time, wait_start,
                   stealing, run_kind, dpc, added_at_shutdown, joined, aborted,
                   thread_count, limit, tasks, started, shutting_down,
                   waiting_count, queue_lock, wtask, task_, runs, fins, mpc, mtask,
                   do_work, added, add_thread>>

\* WorkStealingWorker::Run: stealing_task->StealFrom(self, steal_from_task) returns
StealFromReturn(w) ==
    /\ ~aborted
    /\ wpc[w] = "StealFrom"
    /\ wpc' = [wpc EXCEPT ![w] = "steal_done"]
    /\ UNCHANGED <<now, start_time, total_wait_time, wait_start,
                   stealing, run_kind, dpc, added_at_shutdown, joined, aborted,
                   thread_count, limit, tasks, started, shutting_down,
                   waiting_count, queue_lock, steal_lock, steal_index, wtask, task_,
                   steal_from, ref_count, runs, fins, mpc, mtask, do_work,
                   added, add_thread>>

\* WorkStealingWorker::Run: the MutexLock of "we are done stealing from the task"
StealDoneLock(w) ==
    /\ ~aborted
    /\ wpc[w] = "steal_done"
    /\ steal_lock = {}
    /\ steal_lock' = {w}
    /\ wpc' = [wpc EXCEPT ![w] = "steal_unref"]
    /\ UNCHANGED <<now, start_time, total_wait_time, wait_start,
                   stealing, run_kind, dpc, added_at_shutdown, joined, aborted,
                   thread_count, limit, tasks, started, shutting_down,
                   waiting_count, queue_lock, steal_index, wtask, task_, steal_from,
                   ref_count, runs, fins, mpc, mtask, do_work, added, add_thread>>

\* WorkStealingWorker::Run: --steal_from_task->ref_count_
StealUnrefCount(v) == ref_count[v] - 1

\* WorkStealingWorker::Run: finalize = !--steal_from_task->ref_count_
StealUnref(w) ==
    /\ ~aborted
    /\ wpc[w] = "steal_unref"
    /\ steal_lock' = {}
    /\ ref_count' = [ref_count EXCEPT ![steal_from[w]] = StealUnrefCount(steal_from[w])]
    /\ wpc' = [wpc EXCEPT ![w] = IF ref_count'[steal_from[w]] = 0
                                  THEN "steal_Finalize" ELSE "GetTaskCount"]
    /\ UNCHANGED <<now, start_time, total_wait_time, wait_start,
                   stealing, run_kind, dpc, added_at_shutdown, joined, aborted,
                   thread_count, limit, tasks, started, shutting_down,
                   waiting_count, queue_lock, steal_index, wtask, task_, steal_from,
                   runs, fins, mpc, mtask, do_work, added, add_thread>>

\* WorkStealingWorker::Run: steal_from_task->Finalize()
StealFinalize(w) ==
    /\ ~aborted
    /\ wpc[w] = "steal_Finalize"
    /\ fins' = [fins EXCEPT ![steal_from[w]] = @ + 1]
    /\ wpc' = [wpc EXCEPT ![w] = "GetTaskCount"]
    /\ UNCHANGED <<now, start_time, total_wait_time, wait_start,
                   stealing, run_kind, dpc, added_at_shutdown, joined, aborted,
                   thread_count, limit, tasks, started, shutting_down,
                   waiting_count, queue_lock, steal_lock, steal_index, wtask, task_,
                   steal_from, ref_count, runs, mpc, mtask, do_work, added, add_thread>>

\* WorkStealingWorker::Run: the MutexLock of "if nobody is still referencing task_"
ReleaseLock(w) ==
    /\ ~aborted
    /\ wpc[w] = "release"
    /\ steal_lock = {}
    /\ steal_lock' = {w}
    /\ wpc' = [wpc EXCEPT ![w] = "unref"]
    /\ UNCHANGED <<now, start_time, total_wait_time, wait_start,
                   stealing, run_kind, dpc, added_at_shutdown, joined, aborted,
                   thread_count, limit, tasks, started, shutting_down,
                   waiting_count, queue_lock, steal_index, wtask, task_, steal_from,
                   ref_count, runs, fins, mpc, mtask, do_work, added, add_thread>>

\* WorkStealingWorker::Run: --stealing_task->ref_count_
UnrefCount(t) == ref_count[t] - 1

\* WorkStealingWorker::Run: finalize = !--stealing_task->ref_count_.  Without a
\* Finalize the loop body ends here, and `task` is not read again before
\* GetTask's result is assigned to it.
Unref(w) ==
    /\ ~aborted
    /\ wpc[w] = "unref"
    /\ steal_lock' = {}
    /\ ref_count' = [ref_count EXCEPT ![wtask[w]] = UnrefCount(wtask[w])]
    /\ IF ref_count'[wtask[w]] = 0
       THEN /\ wpc' = [wpc EXCEPT ![w] = "Finalize"]
            /\ UNCHANGED wtask
       ELSE /\ wpc' = [wpc EXCEPT ![w] = "GetTask"]
            /\ wtask' = [wtask EXCEPT ![w] = NULL]
    /\ UNCHANGED <<now, start_time, total_wait_time, wait_start,
                   stealing, run_kind, dpc, added_at_shutdown, joined, aborted,
                   thread_count, limit, tasks, started, shutting_down,
                   waiting_count, queue_lock, steal_index, task_, steal_from,
                   runs, fins, mpc, mtask, do_work, added, add_thread>>

\* WorkStealingWorker::Run: stealing_task->Finalize()
StealingFinalize(w) ==
    /\ ~aborted
    /\ wpc[w] = "Finalize"
    /\ fins' = [fins EXCEPT ![wtask[w]] = @ + 1]
    /\ wtask' = [wtask EXCEPT ![w] = NULL]
    /\ wpc' = [wpc EXCEPT ![w] = "GetTask"]
    /\ UNCHANGED <<now, start_time, total_wait_time, wait_start,
                   stealing, run_kind, dpc, added_at_shutdown, joined, aborted,
                   thread_count, limit, tasks, started, shutting_down,
                   waiting_count, queue_lock, steal_lock, steal_index, task_,
                   steal_from, ref_count, runs, mpc, mtask, do_work, added, add_thread>>

----------------------------------------------------------------------------
CallerIdle == mpc \in {"idle", "Wait_returned"}

\* ThreadPool::Wait: what TryGetTask(self) gives and the queue it leaves.  Read
\* from a destroyed pool, started_ and tasks_ hold what they held or anything
\* else: the call gives NULL or any task, and the old queue is left as it was.
WaitTryGetTaskOutcomes ==
    {[task |-> TryGetTaskLocked, queue |-> TryGetTaskLockedQueue]}
    \cup (IF dpc = "destroyed"
          THEN {[task |-> t, queue |-> tasks] : t \in {NULL} \cup WildTasks}
          ELSE {})

\* ThreadPool::Wait(self, do_work) is called
CallWait ==
    /\ ~aborted
    /\ CallerIdle
    /\ PoolAlive
    /\ \E dw \in BOOLEAN : do_work' = dw
    /\ mpc' = "Wait_try"
    /\ UNCHANGED <<now, start_time, total_wait_time, wait_start,
                   stealing, run_kind, dpc, added_at_shutdown, joined, aborted,
                   thread_count, limit, tasks, started, shutting_down,
                   waiting_count, queue_lock, steal_lock, steal_index, wpc, wtask,
                   task_, steal_from, ref_count, runs, fins, mtask, added, add_thread>>

\* ThreadPool::Wait: while ((task = TryGetTask(self)) != NULL)
WaitTryGetTask ==
    /\ ~aborted
    /\ mpc = "Wait_try"
    /\ queue_lock = {}
    /\ \E got \in WaitTryGetTaskOutcomes :
          /\ mtask' = got.task
          /\ tasks' = got.queue
          /\ mpc' = IF got.task # NULL THEN "Wait_Run" ELSE "Wait_check"
    /\ UNCHANGED <<now, start_time, total_wait_time, wait_start,
                   stealing, run_kind, dpc, added_at_shutdown, joined, aborted,
                   thread_count, limit, started, shutting_down, waiting_count,
                   queue_lock, steal_lock, steal_index, wpc, wtask, task_, steal_from,
                   ref_count, runs, fins, do_work, added, add_thread>>

\* ThreadPool::Wait: task->Run(self) is called on the caller's thread
WaitRunBegin ==
    /\ ~aborted
    /\ mpc = "Wait_Run"
    /\ runs' = [runs EXCEPT ![mtask] = @ + 1]
    /\ mpc' = "Wait_in_Run"
    /\ UNCHANGED <<now, start_time, total_wait_time, wait_start,
                   stealing, run_kind, dpc, added_at_shutdown, joined, aborted,
                   thread_count, limit, tasks, started, shutting_down,
                   waiting_count, queue_lock, steal_lock, steal_index, wpc, wtask,
                   task_, steal_from, ref_count, fins, mtask, do_work, added, add_thread>>

\* A task run by Wait calls AddTask from within its Run.  After ~ThreadPool
\* has returned the call locks the destroyed task_queue_lock_ and writes the
\* destroyed tasks_: it goes on as before, or the process is ended there.
WaitRunAddTask ==
    /\ ~aborted
    /\ mpc = "Wait_in_Run"
    /\ added < limit
    /\ \/ /\ AddTask(added + 1, CallerThread)
          /\ UNCHANGED aborted
       \/ /\ dpc = "destroyed"
          /\ aborted' = TRUE
          /\ UNCHANGED <<tasks, wpc, added, add_thread>>
    /\ UNCHANGED <<now, start_time, total_wait_time, wait_start,
                   stealing, run_kind, dpc, added_at_shutdown, joined,
                   thread_count, limit, started, shutting_down, waiting_count,
                   queue_lock, steal_lock, steal_index, wtask, task_, steal_from,
                   ref_count, runs, fins, mpc, mtask, do_work>>

\* ThreadPool::Wait: task->Run(self) returns, task->Finalize() is called
WaitFinalize ==
    /\ ~aborted
    /\ mpc = "Wait_in_Run"
    /\ fins' = [fins EXCEPT ![mtask] = @ + 1]
    /\ mpc' = "Wait_try"
    /\ UNCHANGED <<now, start_time, total_wait_time, wait_start,
                   stealing, run_kind, dpc, added_at_shutdown, joined, aborted,
                   thread_count, limit, tasks, started, shutting_down,
                   waiting_count, queue_lock, steal_lock, steal_index, wpc, wtask,
                   task_, steal_from, ref_count, runs, mtask, do_work, added, add_thread>>

\* Mutant: Wait blocks only while a worker is busy, whatever the queue holds
WaitMustBlock_IgnoreQueue ==
    ~shutting_down /\ waiting_count # thread_count

\* Mutant: Wait blocks only while workers are busy and the queue is not empty
WaitMustBlock_And ==
    ~shutting_down /\ (waiting_count # thread_count /\ tasks # <<>>)

\* ThreadPool::Wait: the condition of its while loop over completion_condition_
WaitMustBlock ==
    ~shutting_down /\ (waiting_count # thread_count \/ tasks # <<>>)

\* ThreadPool::Wait: where the loop test sends the caller.  Read from a
\* destroyed pool, shutting_down_, waiting_count_ and tasks_ hold anything.
WaitCheckOutcomes ==
    {IF WaitMustBlock THEN "Wait_blocked" ELSE "Wait_returned"}
    \cup (IF dpc = "destroyed" THEN {"Wait_blocked", "Wait_returned"} ELSE {})

\* ThreadPool::Wait: with task_queue_lock_ held (taken on entry or on waking),
\* the loop test, then completion_condition_.Wait or the return
WaitCheck ==
    /\ ~aborted
    /\ mpc = "Wait_check"
    /\ queue_lock = {}
    /\ mpc' \in WaitCheckOutcomes
    /\ UNCHANGED <<now, start_time, total_wait_time, wait_start,
                   stealing, run_kind, dpc, added_at_shutdown, joined, aborted,
                   thread_count, limit, tasks, started, shutting_down,
                   waiting_count, queue_lock, steal_lock, steal_index, wpc, wtask,
                   task_, steal_from, ref_count, runs, fins, mtask, do_work,
                   added, add_thread>>

\* completion_condition_.Wait returns without a Broadcast
SpuriousCompletionWakeup ==
    /\ ~aborted
    /\ mpc = "Wait_blocked"
    /\ mpc' = "Wait_check"
    /\ UNCHANGED <<now, start_time, total_wait_time, wait_start,
                   stealing, run_kind, dpc, added_at_shutdown, joined, aborted,
                   thread_count, limit, tasks, started, shutting_down,
                   waiting_count, queue_lock, steal_lock, steal_index, wpc, wtask,
                   task_, steal_from, ref_count, runs, fins, mtask, do_work,
                   added, add_thread>>

\* ThreadPool::~ThreadPool: task_queue_condition_.Broadcast(self)
ShutdownBroadcast(pcs) == Broadcast(pcs)

\* WorkStealingThreadPool::~WorkStealingThreadPool, called on a thread of its
\* own: its body is empty and its members work_steal_lock_ and steal_index_ are
\* destroyed before ThreadPool::~ThreadPool is entered.  Destroying the mutex
\* while a worker holds it may end the process.
DestroyStealMembers ==
    /\ ~aborted
    /\ stealing
    /\ dpc = "alive"
    /\ dpc' = "base"
    /\ aborted' \in (IF steal_lock # {} THEN BOOLEAN ELSE {FALSE})
    /\ UNCHANGED <<now, start_time, total_wait_time, wait_start,
                   stealing, run_kind, added_at_shutdown, joined, thread_count, limit,
                   tasks, started, shutting_down,
                   waiting_count, queue_lock, steal_lock, steal_index, wpc, wtask,
                   task_, steal_from, ref_count, runs, fins, mpc, mtask, do_work,
                   added, add_thread>>

\* ThreadPool::~ThreadPool: the MutexLock scope, called on a thread of its own
\* (in a WorkStealingThreadPool, after the destructor of the derived class)
Shutdown ==
    /\ ~aborted
    /\ dpc = (IF stealing THEN "base" ELSE "alive")
    /\ queue_lock = {}
    /\ shutting_down' = TRUE
    /\ wpc' = ShutdownBroadcast(wpc)
    /\ mpc' = BroadcastCompletion(mpc)
    /\ dpc' = "join"
    /\ added_at_shutdown' = added
    /\ UNCHANGED <<now, start_time, total_wait_time, wait_start,
                   stealing, run_kind, joined, aborted, thread_count,
                   limit, tasks, started,
                   waiting_count, queue_lock, steal_lock, steal_index, wtask, task_,
                   steal_from, ref_count, runs, fins, mtask, do_work, added, add_thread>>

\* ThreadPool::~ThreadPool, STLDeleteElements(&threads_): the workers are
\* deleted one after the other, in the order of their index; deleting worker w
\* is ThreadPoolWorker::~ThreadPoolWorker, a pthread_join that returns when the
\* thread of w has left its Run
JoinWorker(w) ==
    /\ ~aborted
    /\ dpc = "join"
    /\ joined = w
    /\ wpc[w] = "exited"
    /\ joined' = w + 1
    /\ UNCHANGED <<now, start_time, total_wait_time, wait_start,
                   stealing, run_kind, dpc, added_at_shutdown, aborted,
                   thread_count, limit, tasks, started, shutting_down,
                   waiting_count, queue_lock, steal_lock, steal_index, wpc, wtask,
                   task_, steal_from, ref_count, runs, fins, mpc, mtask, do_work,
                   added, add_thread>>

\* ThreadPool::~ThreadPool returns once every worker is deleted: the members
\* of the pool are destroyed and its memory is released
DestructorReturn ==
    /\ ~aborted
    /\ dpc = "join"
    /\ joined = thread_count
    /\ dpc' = "destroyed"
    /\ UNCHANGED <<now, start_time, total_wait_time, wait_start,
                   stealing, run_kind, added_at_shutdown, joined, aborted,
                   thread_count, limit, tasks, started, shutting_down,
                   waiting_count, queue_lock, steal_lock, steal_index, wpc, wtask,
                   task_, steal_from, ref_count, runs, fins, mpc, mtask, do_work,
                   added, add_thread>>

\* ThreadPool::Wait uses the pool after ~ThreadPool has returned, and the
\* process is ended there (a fault on the freed memory)
WaitAbort ==
    /\ ~aborted
    /\ dpc = "destroyed"
    /\ mpc \in {"Wait_try", "Wait_check", "Wait_blocked"}
    /\ aborted' = TRUE
    /\ UNCHANGED <<now, start_time, total_wait_time, wait_start,
                   stealing, run_kind, dpc, added_at_shutdown, joined, thread_count,
                   limit, tasks, started, shutting_down,
                   waiting_count, queue_lock, steal_lock, steal_index, wpc, wtask,
                   task_, steal_from, ref_count, runs, fins, mpc, mtask, do_work,
                   added, add_thread>>

----------------------------------------------------------------------------
\* ThreadPool::GetTask, the steps of a worker inside it
GetTask(w) ==
    \/ GetTaskLock(w)
    \/ GetTaskLoop(w)
    \/ SpuriousWakeup(w)
    \/ GetTaskWake(w)
    \/ GetTaskAfterWait(w)

\* ThreadPoolWorker::Run, the steps of a worker of the basic pool
ThreadPoolWorkerRun(w) ==
    \/ GetTask(w)
    \/ WorkerRunBegin(w)
    \/ RunAddTask(w)
    \/ WorkerFinalize(w)

\* WorkStealingWorker::Run, the steps of a worker of the stealing pool
WorkStealingWorkerRun(w) ==
    \/ GetTask(w)
    \/ PublishLock(w)
    \/ Publish(w)
    \/ StealingRunBegin(w)
    \/ StealingRunAddTask(w)
    \/ StealingRunEnd(w)
    \/ GetTaskCountLock(w)
    \/ StealingLoopTest(w)
    \/ StealLock(w)
    \/ StealFind(w)
    \/ StealFromReturn(w)
    \/ StealDoneLock(w)
    \/ StealUnref(w)
    \/ StealFinalize(w)
    \/ ReleaseLock(w)
    \/ Unref(w)
    \/ StealingFinalize(w)
    \/ WorkerAbort(w)

\* ThreadPool::Wait, the steps of the caller inside it
WaitSteps ==
    \/ CallWait
    \/ WaitTryGetTask
    \/ WaitRunBegin
    \/ WaitRunAddTask
    \/ WaitFinalize
    \/ WaitCheck
    \/ SpuriousCompletionWakeup

\* ThreadPool::Wait, on a pool that another thread may destroy meanwhile
Wait ==
    \/ WaitSteps
    \/ WaitAbort

\* The calls of the pool's clients
Client ==
    \/ ClientAddTask
    \/ StartWorkers
    \/ StopWorkers

\* ThreadPool::~ThreadPool
Destructor ==
    \/ Shutdown
    \/ \E w \in Workers : JoinWorker(w)
    \/ DestructorReturn

\* WorkStealingThreadPool::~WorkStealingThreadPool, then ThreadPool::~ThreadPool
StealingDestructor ==
    \/ DestroyStealMembers
    \/ Destructor

\* The basic pool
Next ==
    \/ Client
    \/ Wait
    \/ Destructor
    \/ \E w \in Workers : ThreadPoolWorkerRun(w)

Spec == Init /\ [][Next]_vars

\* The work stealing pool
StealNext ==
    \/ Client
    \/ Wait
    \/ StealingDestructor
    \/ \E w \in Workers : WorkStealingWorkerRun(w)
    \/ \E w \in Workers : ThreadPoolWorkerRun(w)

StealSpec == StealInit /\ [][StealNext]_vars

\* The pool of no workers
ZeroNext ==
    \/ Client
    \/ Wait
    \/ Shutdown
    \/ DestructorReturn

ZeroSpec == ZeroInit /\ [][ZeroNext]_vars
\* The steps worker w takes when scheduled
WorkerProgress(w) ==
    \/ GetTaskLock(w) \/ GetTaskLoop(w) \/ GetTaskWake(w) \/ GetTaskAfterWait(w)
    \/ WorkerRunBegin(w) \/ WorkerFinalize(w)
    \/ PublishLock(w) \/ Publish(w) \/ StealingRunBegin(w) \/ StealingRunEnd(w)
    \/ GetTaskCountLock(w) \/ StealingLoopTest(w) \/ StealLock(w) \/ StealFind(w)
    \/ StealFromReturn(w) \/ StealDoneLock(w) \/ StealUnref(w) \/ StealFinalize(w)
    \/ ReleaseLock(w) \/ Unref(w) \/ StealingFinalize(w)

\* The steps the caller takes when scheduled, once inside Wait
CallerProgress ==
    \/ WaitTryGetTask \/ WaitRunBegin \/ WaitFinalize \/ WaitCheck

\* The steps the destroying thread takes when scheduled, once inside the destructor
DestructorProgress ==
    \/ (dpc = "base" /\ Shutdown)
    \/ \E w \in Workers : JoinWorker(w)
    \/ DestructorReturn

\* The threads are scheduled, and no more is assumed of the scheduler or of
\* the mutex: a thread that can take its next step from some moment on does
\* take it.  A Run, a StealFrom and a Finalize return.  The calls of the
\* clients, the tasks added by a Run and the spurious wakeups are under no
\* obligation.
UseFairness ==
    /\ \A w \in 0 .. (LiveWorkers - 1) : WF_vars(WorkerProgress(w))
    /\ WF_vars(CallerProgress)

\* The basic pool in use, between its construction and its destruction: the
\* calls of its clients, Wait and the workers
UseNext ==
    \/ Client
    \/ WaitSteps
    \/ \E w \in Workers : ThreadPoolWorkerRun(w)

UseSpec == FairInit /\ [][UseNext]_vars /\ UseFairness

\* Either pool and its destructor, where no thread calls Wait.  The threads
\* are scheduled as above, the destroying thread among them.
ShutdownNext ==
    \/ Client
    \/ StealingDestructor
    \/ \E w \in Workers : ThreadPoolWorkerRun(w)
    \/ \E w \in Workers : WorkStealingWorkerRun(w)

WeakFairness ==
    /\ \A w \in 0 .. (LiveWorkers - 1) : WF_vars(WorkerProgress(w))
    /\ WF_vars(CallerProgress)
    /\ WF_vars(DestructorProgress)

ShutdownSpec == FairPoolsInit /\ [][ShutdownNext]_vars /\ WeakFairness

\* NanoTime() moves on
Tick ==
    /\ ~aborted
    /\ now < MaxClock
    /\ now' = now + 1
    /\ UNCHANGED <<start_time, total_wait_time, wait_start,
                   stealing, run_kind, dpc, added_at_shutdown, joined, aborted,
                   thread_count, limit, tasks, started, shutting_down,
                   waiting_count, queue_lock, steal_lock, steal_index, wpc, wtask,
                   task_, steal_from, ref_count, runs, fins, mpc, mtask, do_work,
                   added, add_thread>>

\* ThreadPool pool(NumWorkers) with its clock
TimeInit == InitPool(NumWorkers, FALSE, MaxTasks)

\* The basic pool and its clock
TimeNext ==
    \/ Client
    \/ Wait
    \/ Destructor
    \/ Tick
    \/ \E w \in Workers : ThreadPoolWorkerRun(w)

TimeSpec == TimeInit /\ [][TimeNext]_vars

\* FindTaskToStealFrom on its own.  A worker of a started stealing pool of n
\* workers has run its task (the last of FindTasks), cleared its task_, found
\* the queue empty and holds work_steal_lock_; the cursor is anywhere; each
\* other worker is inside the Run of a task of its own or between two tasks;
\* the tasks nobody holds were run and finalized.
FindInit ==
    \E n \in 1 .. FindWorkers : \E caller \in 0 .. (n - 1) : \E c \in 0 .. (n - 1) :
    \E pub \in [0 .. (n - 1) -> 0 .. (FindTasks - 1)] :
        /\ pub[caller] = NULL
        /\ \A w, v \in 0 .. (n - 1) : (w # v /\ pub[w] # NULL) => pub[w] # pub[v]
        /\ now = 0
        /\ start_time = 0
        /\ total_wait_time = 0
        /\ wait_start = [w \in 0 .. (n - 1) |-> 0]
        /\ run_kind = [w \in 0 .. (n - 1) |-> "WorkStealingWorker"]
        /\ dpc = "alive"
        /\ added_at_shutdown = 0
        /\ joined = 0
        /\ aborted = FALSE
        /\ stealing = TRUE
        /\ thread_count = n
        /\ limit = FindTasks
        /\ tasks = <<>>
        /\ started = TRUE
        /\ shutting_down = FALSE
        /\ waiting_count = 0
        /\ queue_lock = {}
        /\ steal_lock = {caller}
        /\ steal_index = c
        /\ wpc = [w \in 0 .. (n - 1) |->
                    IF w = caller THEN "FindTaskToStealFrom"
                    ELSE IF pub[w] # NULL THEN "in_Run" ELSE "GetTask"]
        /\ wtask = [w \in 0 .. (n - 1) |-> IF w = caller THEN FindTasks ELSE pub[w]]
        /\ task_ = pub
        /\ steal_from = [w \in 0 .. (n - 1) |-> NULL]
        /\ ref_count = [t \in 1 .. FindTasks |->
                          IF t = FindTasks \/ (\E w \in 0 .. (n - 1) : pub[w] = t)
                          THEN 1 ELSE 0]
        /\ runs = [t \in 1 .. FindTasks |-> 1]
        /\ fins = [t \in 1 .. FindTasks |->
                     IF t = FindTasks \/ (\E w \in 0 .. (n - 1) : pub[w] = t)
                     THEN 0 ELSE 1]
        /\ mpc = "idle"
        /\ mtask = NULL
        /\ do_work = FALSE
        /\ added = FindTasks
        /\ add_thread = ClientThread

FindNext == \E w \in Workers : StealFind(w)

FindSpec == FindInit /\ [][FindNext]_vars

----------------------------------------------------------------------------
\* What the claims speak of.

\* The tasks in the queue
Queued == {tasks[i] : i \in 1 .. Len(tasks)}

\* The tasks passed to AddTask so far
Added == 1 .. added

\* Task t was taken from the queue by a worker of the basic pool or by Wait,
\* which has not yet finalized it
HeldBasic(t) ==
    \/ \E w \in Workers : wtask[w] = t /\ wpc[w] \in {"got_task", "in_Run"}
    \/ mtask = t /\ mpc \in {"Wait_Run", "Wait_in_Run"}

\* Every worker is inside task_queue_condition_.Wait
AllWorkersWaiting == \A w \in Workers : wpc[w] \in {"cond_wait", "cond_woken"}

----------------------------------------------------------------------------
\* C1 as stated: when the destructor of the basic pool returns, every task
\* that was passed to AddTask before the destructor set shutting_down_ has
\* been run exactly once and finalized exactly once.
C1_Original ==
    [][DestructorReturn =>
         \A t \in 1 .. added_at_shutdown : runs'[t] = 1 /\ fins'[t] = 1]_vars

\* Every task passed to AddTask is accounted for: a task in the queue has
\* never been run or finalized, a task that a worker or a call of Wait under
\* way has taken and not yet finalized has been run at most once, and every
\* other task has been run exactly once and finalized exactly once
TasksAccounted ==
    \A t \in Added :
        IF t \in Queued THEN runs[t] = 0 /\ fins[t] = 0
        ELSE IF HeldBasic(t) THEN runs[t] <= 1 /\ fins[t] = 0
        ELSE runs[t] = 1 /\ fins[t] = 1

\* C1 as amended: in the basic pool every Run a worker begins is the first Run
\* of a task that has left the queue, every Finalize a worker calls is the
\* first Finalize of a task that was run once, and when the destructor
\* returns every task passed to AddTask has been run exactly once and
\* finalized exactly once, except the tasks left in the queue, which have
\* never been run or finalized, and a task held by a call of Wait that is
\* still under way, which has been run at most once.
C1_RunAndFinalizedOnceUnlessLeftQueued ==
    /\ [][\A w \in Workers : WorkerRunBegin(w) =>
            (wtask[w] \notin Queued /\ runs[wtask[w]] = 0 /\ fins[wtask[w]] = 0)]_vars
    /\ [][\A w \in Workers : WorkerFinalize(w) =>
            (runs[wtask[w]] = 1 /\ fins[wtask[w]] = 0)]_vars
    /\ [][DestructorReturn => TasksAccounted']_vars

\* The pool is destroyed after one task was run and finalized by a worker and
\* while another is still queued.
C1_Witness ==
    /\ dpc = "destroyed" /\ CallerIdle
    /\ added = 2
    /\ runs[1] = 1 /\ fins[1] = 1
    /\ tasks = <<2>> /\ runs[2] = 0

----------------------------------------------------------------------------
\* Worker w is inside Run of task t
InRun(w, t) == wtask[w] = t /\ wpc[w] = "in_Run"

\* Worker w is inside StealFrom with t as the thief's task or as the victim
InStealFrom(w, t) == wpc[w] = "StealFrom" /\ (wtask[w] = t \/ steal_from[w] = t)

\* No Run and no StealFrom is at work on a finalized task
FinalizeIsLast ==
    \A t \in Added : fins[t] >= 1 =>
        /\ runs[t] = 1
        /\ \A w \in Workers : ~InRun(w, t) /\ ~InStealFrom(w, t)
        /\ ~(mtask = t /\ mpc \in {"Wait_Run", "Wait_in_Run"})

\* C2 as stated, for what it says of every state: on the stealing pool no
\* task is finalized more than once, a finalized task has been run, and no
\* Run and no StealFrom is at work on a task that has been finalized, as its
\* own task, as thief or as victim.
C2_Original ==
    /\ FinalizeIsLast
    /\ \A t \in Added : fins[t] <= 1

----------------------------------------------------------------------------
\* C3: when Wait(do_work = false) returns and shutting_down is false, then at
\* its last test under task_queue_lock_ the queue is empty, waiting_count_ is
\* the number of workers and every worker is inside the wait of GetTask.
C3_WaitReturnsAtQuiescence ==
    [][(mpc = "Wait_check" /\ mpc' = "Wait_returned" /\ ~do_work /\ ~shutting_down)
        => (tasks = <<>> /\ waiting_count = thread_count /\ AllWorkersWaiting)]_vars

\* Wait(false) has returned on a pool whose workers ran both tasks and went
\* back to waiting.
C3_Witness ==
    /\ mpc = "Wait_returned" /\ ~do_work /\ ~shutting_down
    /\ added = 2 /\ fins[1] = 1 /\ fins[2] = 1
    /\ tasks = <<>> /\ waiting_count = thread_count /\ AllWorkersWaiting

----------------------------------------------------------------------------
\* C9 as stated: a Wait called with do_work = false never takes a task from
\* the queue to run and finalize it on the calling thread.
C9_Original == ~do_work => mpc \notin {"Wait_Run", "Wait_in_Run"}

----------------------------------------------------------------------------
\* C8 as stated, for the pool of no workers: Wait(false) runs nothing on the
\* caller's thread and returns only at shutdown.
C8_Original ==
    (thread_count = 0 /\ ~do_work) =>
        /\ mpc \notin {"Wait_Run", "Wait_in_Run"}
        /\ mpc = "Wait_returned" => (shutting_down \/ added = 0)
----------------------------------------------------------------------------
\* The workers of the specifications with fairness
LiveWorkerIds == 0 .. (LiveWorkers - 1)

\* C4 as stated: once the destructor has set shutting_down_, every worker of
\* either pool gets NULL from GetTask and leaves its loop (its Run, StealFrom
\* and Finalize calls return), so no worker is cut off before that by a fault
\* that ends the process; and the destructor has returned only when every
\* worker thread has ended.
C4_Original ==
    /\ shutting_down ~> (\A w \in LiveWorkerIds : wpc[w] = "exited")
    /\ []((shutting_down /\ aborted) => \A w \in LiveWorkerIds : wpc[w] = "exited")
    /\ [](dpc = "destroyed" => \A w \in LiveWorkerIds : wpc[w] = "exited")
----------------------------------------------------------------------------
\* The caller is inside Wait
InWait == mpc \in {"Wait_try", "Wait_Run", "Wait_in_Run", "Wait_check", "Wait_blocked"}

\* The tasks of the specifications with fairness
LiveTaskIds == 1 .. LiveTasks

\* No thread is starved of task_queue_lock_: a worker or a caller of Wait that
\* finds the mutex free again and again does acquire it.  pthread_mutex_lock
\* promises no such thing; it is a hypothesis about the run.
NoStarvation ==
    /\ \A w \in 0 .. (LiveWorkers - 1) : SF_vars(WorkerProgress(w))
    /\ SF_vars(CallerProgress)

----------------------------------------------------------------------------
\* C6 as stated: while started_ is false no task leaves the queue and no Run
\* is begun, by a worker or by Wait; once started_ is true every queued task
\* is executed.
C6_Original ==
    /\ [][~started => (Len(tasks') >= Len(tasks) /\ runs' = runs)]_vars
    /\ \A t \in LiveTaskIds : (started /\ t \in Queued) ~> (runs[t] >= 1)

\* C6 as amended: while started_ is false no task leaves the queue (the queue
\* only grows by AddTask), and the only Run begun is that of a task which a
\* worker or Wait took from the queue earlier, before StopWorkers; while
\* started_ is true every queued task is executed, unless StopWorkers is
\* called first.
C6_NoDispatchWhileStopped ==
    /\ [][~started => (tasks' = tasks \/ tasks' = Append(tasks, added + 1))]_vars
    /\ [][\A t \in TaskIds : (~started /\ runs'[t] # runs[t])
                                => (t \notin Queued /\ HeldBasic(t))]_vars
    /\ \A t \in LiveTaskIds :
         (started /\ t \in Queued) ~> (runs[t] >= 1 \/ ~started)

\* After StopWorkers a worker is inside the Run of a task it had taken from the
\* queue, and the next task stays in the queue.
C6_Witness ==
    /\ ~started /\ tasks = <<2>> /\ runs[2] = 0
    /\ \E w \in Workers : wpc[w] = "in_Run" /\ wtask[w] = 1

----------------------------------------------------------------------------
\* C7: StartWorkers and StopWorkers leave the queue as it is, and a task that
\* is in the queue while the pool is stopped is run once the pool is started
\* again (unless StopWorkers is called again first).
C7_StopThenStartKeepsQueue ==
    /\ [][(StartWorkers \/ StopWorkers) => tasks' = tasks]_vars
    /\ \A t \in LiveTaskIds :
         [](( ~started /\ t \in Queued)
              => [](started => <>(runs[t] >= 1 \/ ~started)))

\* The pool ran task 1 and was stopped with task 2 in the queue.
C7_Witness ==
    /\ ~started /\ ~shutting_down
    /\ fins[1] = 1 /\ tasks = <<2>>
    /\ AllWorkersWaiting

----------------------------------------------------------------------------
----------------------------------------------------------------------------
\* Worker w is at a call of user code: Run, StealFrom or Finalize is about to
\* be called or has not yet returned.  A ThreadPoolWorker that GetTask gave a
\* task is about to call Run, and inside that Run it is about to call
\* Finalize, which it does as it leaves the Run.
InUserCode(w) ==
    \/ wpc[w] \in {"in_Run", "call_Run", "StealFrom", "steal_Finalize", "Finalize"}
    \/ wpc[w] = "got_task" /\ run_kind[w] = "ThreadPoolWorker"

\* The caller of Wait is at a call of user code: at the Run of the task that
\* TryGetTask gave it, or inside it and about to call Finalize.  The caller
\* holds task_queue_lock_ only within TryGetTask and within the scope that
\* tests for completion, which it has left or not yet entered.
CallerInUserCode == mpc \in {"Wait_Run", "Wait_in_Run"}

\* The workers holding a mutex
LockHolders == queue_lock \cup steal_lock

\* The steps a worker takes with a mutex held, up to its release
HoldingStep(w) ==
    \/ GetTaskLoop(w) \/ GetTaskAfterWait(w) \/ StealingLoopTest(w)
    \/ Publish(w) \/ StealFind(w) \/ StealUnref(w) \/ Unref(w)

\* C12: no thread holds task_queue_lock_ and work_steal_lock_ together; a
\* thread that calls Run, StealFrom or Finalize holds neither (every step
\* that begins a Run or a Finalize is taken by a worker at a call of user
\* code that holds no mutex, or by the caller of Wait outside its two lock
\* scopes);
\* and a thread that holds a mutex can always go on to release it (in a
\* process that has not been ended by a fault), so no state is a deadlock
\* over the two mutexes.
C12_LocksNeverNested ==
    /\ [](queue_lock \cap steal_lock = {})
    /\ [](Cardinality(queue_lock) <= 1 /\ Cardinality(steal_lock) <= 1)
    /\ [](\A w \in Workers : InUserCode(w) => w \notin LockHolders)
    /\ [][(runs' # runs \/ fins' # fins) =>
            \/ mpc' # mpc /\ CallerInUserCode
            \/ \E w \in Workers :
                  wpc'[w] # wpc[w] /\ InUserCode(w) /\ w \notin LockHolders]_vars
    /\ [](aborted \/ \A w \in LockHolders : ENABLED HoldingStep(w))

\* One worker holds task_queue_lock_ while another holds work_steal_lock_ and
\* a task has been run.
C12_Witness ==
    \E w, v \in Workers :
        /\ w # v /\ queue_lock = {w} /\ steal_lock = {v}
        /\ wpc[w] = "GetTaskCount_locked" /\ wpc[v] = "FindTaskToStealFrom"

----------------------------------------------------------------------------
\* C13: tasks leave the queue in the order they were added.  Tasks are
\* numbered in the order of their AddTask, so: the queue changes only by
\* AddTask at the tail or by a dequeue at the head, and it always holds, in
\* order, exactly the tasks added after the last one that was dequeued; hence
\* a task is dequeued only after every task added before it.
C13_QueueIsFifo ==
    /\ [][tasks' # tasks =>
            \/ tasks' = Append(tasks, added + 1)
            \/ tasks # <<>> /\ tasks' = Tail(tasks)]_vars
    /\ [](\E k \in 0 .. added : tasks = [i \in 1 .. (added - k) |-> k + i])

\* Task 1 was dequeued and finalized, task 2 is held by a thread and the later
\* tasks are still queued in their order.
C13_Witness ==
    /\ added = limit /\ fins[1] = 1
    /\ tasks = [i \in 1 .. (limit - 2) |-> 2 + i]
    /\ HeldBasic(2)

----------------------------------------------------------------------------
\* Worker w is blocked inside task_queue_condition_.Wait with no Signal or
\* Broadcast (or spurious wakeup) pending for it
BlockedUnsignalled(w) == wpc[w] = "cond_wait"

\* C14: no wake-up is lost.  With started_ true, shutting_down_ false and a
\* task in the queue, the workers are never all blocked on
\* task_queue_condition_ with no wake-up pending; and every task in the queue
\* of a started pool is dequeued (unless StopWorkers is called first), with
\* AddTask signalling one waiter only.
C14_NoLostWakeup ==
    /\ []((started /\ ~shutting_down /\ tasks # <<>>)
            => \E w \in Workers : ~BlockedUnsignalled(w))
    /\ \A t \in LiveTaskIds :
         (started /\ t \in Queued) ~> (t \notin Queued \/ ~started)

\* On a started pool whose workers were all waiting, AddTask has signalled
\* one of them, which has not yet taken the mutex again; the other still
\* waits and the task is in the queue.
C14_Witness ==
    /\ started /\ ~shutting_down /\ tasks = <<1>>
    /\ waiting_count = thread_count
    /\ Cardinality({w \in Workers : wpc[w] = "cond_woken"}) = 1
    /\ Cardinality({w \in Workers : wpc[w] = "cond_wait"}) = thread_count - 1

----------------------------------------------------------------------------
\* C15 as stated: shutting_down_ never becomes false again; once it is set no task
\* leaves the queue (AddTask may still append to it) and no worker gets a
\* task from GetTask, even with started_ true and tasks in the queue, so the
\* tasks then queued are never run and never finalized by a worker; and every
\* worker still leaves its loop.
C15_Original ==
    /\ [][shutting_down => shutting_down']_vars
    /\ [][shutting_down => (/\ Len(tasks') >= Len(tasks)
                             /\ SubSeq(tasks', 1, Len(tasks)) = tasks)]_vars
    /\ [][shutting_down =>
            \A w \in Workers : wpc'[w] = "got_task" => wpc[w] = "got_task"]_vars
    /\ [](shutting_down => \A t \in Queued : runs[t] = 0 /\ fins[t] = 0)
    /\ (shutting_down /\ started /\ tasks # <<>>)
          ~> (tasks # <<>> /\ \A w \in LiveWorkerIds : wpc[w] = "exited")

----------------------------------------------------------------------------
\* Worker w is inside StealFrom, or between StealFrom and the decrement of its
\* victim's reference count, with t as the victim
StealingFrom(w, t) ==
    wpc[w] \in {"StealFrom", "steal_done", "steal_unref"} /\ steal_from[w] = t

\* C16 as stated: on the stealing pool a task that is the task_ of some worker, or the
\* victim of a StealFrom under way, has ref_count_ >= 1 (so a task with
\* ref_count_ 0 is neither); ref_count_ is never negative; and a ref_count_
\* that has dropped to 0 (the task has been run) is never incremented again.
C16_Original ==
    /\ [](\A w \in Workers : task_[w] # NULL => ref_count[task_[w]] >= 1)
    /\ [](\A w \in Workers : \A t \in TaskIds : StealingFrom(w, t) => ref_count[t] >= 1)
    /\ [](\A t \in TaskIds : ref_count[t] >= 0)
    /\ [][\A t \in TaskIds :
            (ref_count[t] = 0 /\ runs[t] >= 1) => ref_count'[t] = 0]_vars

----------------------------------------------------------------------------
----------------------------------------------------------------------------
\* The workers inside task_queue_condition_.Wait: they entered the wait and
\* have not taken the mutex again
WaitingWorkers == {w \in Workers : wpc[w] \in {"cond_wait", "cond_woken"}}

\* A worker holds task_queue_lock_ between its wake-up and waiting_count_--
InBookkeeping == \E w \in queue_lock : wpc[w] = "GetTask_woken"

\* C18: waiting_count_ is between 0 and the number of workers, and whenever
\* task_queue_lock_ is free, or held by a thread that is not between its
\* wake-up and its waiting_count_--, it is the number of workers inside the
\* wait of GetTask.
C18_WaitingCountExact ==
    /\ waiting_count >= 0 /\ waiting_count <= thread_count
    /\ ~InBookkeeping => waiting_count = Cardinality(WaitingWorkers)

\* One worker waits, the other is inside a Run, the mutex is free, and the
\* count has gone up and down before.
C18_Witness ==
    /\ queue_lock = {} /\ waiting_count = 1
    /\ \E w, v \in Workers :
         /\ wpc[w] = "cond_wait" /\ wpc[v] = "in_Run" /\ wtask[v] = 2
    /\ fins[1] = 1

----------------------------------------------------------------------------
\* C19 as stated: neither assertion of the stealing worker fails: a worker that has
\* just taken a task from GetTask has task_ NULL, and the victim found by
\* FindTaskToStealFrom is never the task the worker has just run.
C19_Original ==
    /\ \A w \in Workers : wpc[w] # "CHECK_failed"
    /\ \A w \in Workers : wpc[w] = "got_task" => task_[w] = NULL
    /\ \A w \in Workers :
         wpc[w] = "FindTaskToStealFrom" => FindTaskToStealFrom.task # wtask[w]

----------------------------------------------------------------------------
\* The candidates of a scan from cursor c on n workers, by their rank 1 .. n
\* in the order (c+1) mod n, (c+2) mod n, ..., that have a task
Candidates(c, n) == {k \in 1 .. n : task_[(c + k) % n] # NULL}

\* C20: FindTaskToStealFrom, called with cursor c on N >= 1 workers, returns
\* the task_ of the first worker in the order (c+1) mod N, (c+2) mod N, ...,
\* of at most N workers, whose task_ is not NULL, and leaves the cursor at
\* that worker; or it returns NULL when every task_ is NULL, and leaves the
\* cursor at c.  The cursor stays in 0 .. N-1.
C20_FindScansRoundRobin ==
    /\ [](steal_index \in 0 .. (thread_count - 1))
    /\ [][\A w \in Workers :
            (wpc[w] = "FindTaskToStealFrom" /\ wpc'[w] # wpc[w]) =>
                LET c == steal_index
                    n == thread_count
                    K == Candidates(c, n)
                IN  IF K = {}
                    THEN /\ steal_index' = c
                         /\ steal_from'[w] = NULL
                         /\ wpc'[w] = "release"
                    ELSE LET k == CHOOSE m \in K : \A x \in K : m <= x
                         IN  /\ steal_index' = (c + k) % n
                             /\ steal_from'[w] = task_[(c + k) % n]
                             /\ wpc'[w] = "StealFrom"]_vars

\* On FindWorkers workers the call has returned a victim: the cursor is at the
\* victim's worker, below the caller's slot, and a worker between the two has
\* no task.
C20_Witness ==
    /\ thread_count = FindWorkers
    /\ \E w, v, u \in Workers :
         /\ v < u /\ u < w
         /\ wpc[w] = "StealFrom" /\ steal_lock = {}
         /\ steal_index = v /\ steal_from[w] = task_[v]
         /\ task_[u] = NULL /\ wpc[u] = "GetTask"

----------------------------------------------------------------------------
\* Worker w computes its wait time: the step after its wake-up
AccountsWait(w) == wpc[w] = "GetTask_woken" /\ wpc'[w] = "GetTask_loop"

\* C11 as stated: total_wait_time_ is never negative, no step lowers it, and
\* wait_end - max(wait_start, start_time_) is never taken with wait_end the
\* smaller.
C11_Original ==
    /\ [](total_wait_time >= 0)
    /\ [][total_wait_time' >= total_wait_time]_vars
    /\ [][\A w \in Workers :
            AccountsWait(w) => now >= Max(wait_start[w], start_time)]_vars
====
